---------------------------- MODULE Spec2Model ----------------------------
(***************************************************************************)
(* A model of the ALMA lookup front ends:                                  *)
(*   classify_alma_list.py        ("classify")  batch classifier, clean_id *)
(*   alma_batch_classifier_app.py ("batch")     batch classifier, ALMA_RE  *)
(*   alma_lookup_app.py           ("lookup")    single-id lookup, clean_id *)
(*   alma_catalogue_v1.py         ("catalogue") catalogue, extract_alma    *)
(*                                                                         *)
(* Text is a sequence of one-character strings.  Characters that have no   *)
(* printable form are named: RLM (U+200F), LRM (U+200E), BOM (U+FEFF),     *)
(* TAB, LF.  An absent identifier (Python None or "") is the empty         *)
(* sequence: every place of the code that tests a normalizer's result      *)
(* tests its truth value, under which None and "" agree.                   *)
(***************************************************************************)
EXTENDS Integers, Sequences, FiniteSets, TLC

VARIABLES
    app,                  \* the front end that is running
    pc,                   \* position in the front end's script
    raw, normFn, once, twice,   \* normalizer runs: input, function, f(x), f(f(x))
    derived,              \* identifiers one text yields in each reading place
    text, ids,            \* uploaded text and the batch ingested from it
    xlsxExists, listExists,     \* presence of the two repository sources
    columns, table,       \* spreadsheet: column names, rows read so far
    listText,             \* content of the Genizah list file
    geniza_set,
    child_to_parents, parent_to_children,
    parents_set, children_set, role_map,
    error,                \* the error the load ended with, and the columns it lists
    genizah, not_genizah,
    parents_only, children_and_parents, children_only,
    submitted_children,   \* the batch classifier's derived-parents summary
    parents_list, parent_to_childcount, mapping_rows,
    top_level_parents, standalone,
    uploaded, tmp_file,   \* lookup app: the upload widget, the file it writes
    xlsx_path,            \* the path the run passes to load_graph
    graph_cache,          \* st.cache_data of load_graph: path -> result
    alma_in, query_alma,        \* the query text and its identifier
    in_geniza, lookup_parents, lookup_children

vars == <<app, pc, raw, normFn, once, twice, derived, text, ids,
          xlsxExists, listExists, columns, table, listText, geniza_set,
          child_to_parents, parent_to_children,
          parents_set, children_set, role_map, error,
          genizah, not_genizah,
          parents_only, children_and_parents, children_only,
          submitted_children, parents_list, parent_to_childcount, mapping_rows,
          top_level_parents, standalone,
          uploaded, tmp_file, xlsx_path, graph_cache, alma_in, query_alma,
          in_geniza, lookup_parents, lookup_children>>

normVars == <<raw, normFn, once, twice, derived>>
ingestVars == <<text, ids>>
envVars == <<xlsxExists, listExists, columns, listText>>
graphVars == <<table, geniza_set, child_to_parents, parent_to_children,
               parents_set, children_set, role_map, error>>
lookupVars == <<uploaded, tmp_file, xlsx_path, graph_cache, alma_in, query_alma,
                in_geniza, lookup_parents, lookup_children>>
classVars == <<genizah, not_genizah, parents_only, children_and_parents, children_only,
               submitted_children, parents_list, parent_to_childcount,
               mapping_rows, top_level_parents, standalone>>

---------------------------------------------------------------------------
(* Characters *)

SP == " "
TAB == "TAB"
LF == "LF"
APOS == "'"
RLM == "RLM"
LRM == "LRM"
BOM == "BOM"
HASH == "#"
BAR == "|"

Digits == {"0", "1", "2", "3", "5"}

\* str.strip() removes the characters str.isspace() accepts; the directional
\* marks and the byte-order mark are format characters, not whitespace.
Whitespace == {SP, TAB, LF}

PARENT_SEPARATOR == <<BAR, BAR, BAR>>

ALMA_RE_MIN == 8
EXTRACT_ALMA_MIN == 6

Absent == <<>>

---------------------------------------------------------------------------
(* Text primitives of the Python runtime *)

Range(s) == {s[i] : i \in 1..Len(s)}

Rep(c, n) == [i \in 1..n |-> c]

StartsWith(s, c) == Len(s) > 0 /\ s[1] = c

\* s.replace(c, "") for each c in cs
Remove(s, cs) == SelectSeq(s, LAMBDA c : c \notin cs)

RECURSIVE LStrip(_)
LStrip(s) ==
    IF Len(s) > 0 /\ s[1] \in Whitespace THEN LStrip(Tail(s)) ELSE s

RECURSIVE RStrip(_)
RStrip(s) ==
    IF Len(s) > 0 /\ s[Len(s)] \in Whitespace
    THEN RStrip(SubSeq(s, 1, Len(s) - 1))
    ELSE s

\* str.strip()
Strip(s) == RStrip(LStrip(s))

\* the first position at which sep occurs in s, 0 when it does not
FindSep(s, sep) ==
    LET hits == {i \in 1..(Len(s) - Len(sep) + 1) :
                    SubSeq(s, i, i + Len(sep) - 1) = sep}
    IN IF hits = {} THEN 0
       ELSE CHOOSE i \in hits : \A j \in hits : i <= j

\* str.split(sep): left to right, non-overlapping, empty parts kept
RECURSIVE Split(_, _)
Split(s, sep) ==
    LET i == FindSep(s, sep)
    IN IF i = 0 THEN <<s>>
       ELSE <<SubSeq(s, 1, i - 1)>>
            \o Split(SubSeq(s, i + Len(sep), Len(s)), sep)

\* str.splitlines(): no line for an empty text, none after a final line break
RECURSIVE SplitLines(_)
SplitLines(t) ==
    LET i == FindSep(t, <<LF>>)
    IN IF Len(t) = 0 THEN <<>>
       ELSE IF i = 0 THEN <<t>>
       ELSE <<SubSeq(t, 1, i - 1)>> \o SplitLines(SubSeq(t, i + 1, Len(t)))

\* "\n".join(lines)
RECURSIVE JoinLines(_)
JoinLines(ls) ==
    IF Len(ls) = 0 THEN <<>>
    ELSE IF Len(ls) = 1 THEN ls[1]
    ELSE ls[1] \o <<LF>> \o JoinLines(Tail(ls))

\* the length of the digit run that starts at position i of s
RECURSIVE RunLen(_, _)
RunLen(s, i) ==
    IF i <= Len(s) /\ s[i] \in Digits THEN 1 + RunLen(s, i + 1) ELSE 0

\* re.findall(r"\d{n,}", s) scanning from position i: the greedy quantifier
\* takes each maximal digit run; a run shorter than n matches nowhere
RECURSIVE FindAllFrom(_, _, _)
FindAllFrom(s, n, i) ==
    IF i > Len(s) THEN <<>>
    ELSE LET k == RunLen(s, i)
         IN IF k = 0 THEN FindAllFrom(s, n, i + 1)
            ELSE IF k >= n
                 THEN <<SubSeq(s, i, i + k - 1)>> \o FindAllFrom(s, n, i + k)
                 ELSE FindAllFrom(s, n, i + k)

FindAll(s, n) == FindAllFrom(s, n, 1)

---------------------------------------------------------------------------
(* Normalizers *)

\* classify_alma_list.clean_id and alma_lookup_app.clean_id (the same code)
clean_id(x) ==
    LET s1 == Strip(x)
        s2 == IF StartsWith(s1, APOS) THEN Strip(Tail(s1)) ELSE s1
        s3 == Remove(Remove(s2, {SP}), {TAB})
        s4 == Remove(Remove(s3, {RLM}), {LRM})
    IN s4

\* alma_catalogue_v1.extract_alma: re.search takes the first match
extract_alma(x) ==
    LET m == FindAll(x, EXTRACT_ALMA_MIN)
    IN IF Len(m) > 0 THEN m[1] ELSE Absent

\* alma_batch_classifier_app.clean_line
clean_line(s) == Strip(Remove(Remove(Remove(s, {RLM}), {LRM}), {BOM}))

\* ALMA_RE.findall
ALMA_RE_findall(s) == FindAll(s, ALMA_RE_MIN)


---------------------------------------------------------------------------
(* List helpers *)

RECURSIVE Flatten(_)
Flatten(ss) == IF Len(ss) = 0 THEN <<>> ELSE ss[1] \o Flatten(Tail(ss))

---------------------------------------------------------------------------
(* Batch ingestion *)

\* parse_txt_ids_step without the membership test on seen
parse_txt_ids_step_noseen(acc, rawline) ==
    LET line == Strip(rawline)
        alma == clean_id(line)
    IN IF line = <<>> \/ StartsWith(line, HASH) THEN acc
       ELSE IF alma # <<>>
            THEN [seen |-> acc.seen \cup {alma},
                  ordered |-> Append(acc.ordered, alma)]
            ELSE acc

\* one iteration of the loop of parse_txt_ids; acc = [seen, ordered]
parse_txt_ids_step(acc, rawline) ==
    LET line == Strip(rawline)
        alma == clean_id(line)
    IN IF line = <<>> \/ StartsWith(line, HASH) THEN acc
       ELSE IF alma # <<>> /\ alma \notin acc.seen
            THEN [seen |-> acc.seen \cup {alma},
                  ordered |-> Append(acc.ordered, alma)]
            ELSE acc

RECURSIVE parse_txt_ids_loop(_, _)
parse_txt_ids_loop(lines, acc) ==
    IF Len(lines) = 0 THEN acc
    ELSE parse_txt_ids_loop(Tail(lines), parse_txt_ids_step(acc, lines[1]))

\* classify_alma_list.parse_txt_ids
parse_txt_ids(t) ==
    parse_txt_ids_loop(SplitLines(t), [seen |-> {}, ordered |-> <<>>]).ordered

\* the inner loop of extract_almas_from_text over the matches of one line
RECURSIVE extract_almas_matches(_, _)
extract_almas_matches(ms, acc) ==
    IF Len(ms) = 0 THEN acc
    ELSE extract_almas_matches(Tail(ms),
            IF ms[1] \notin acc.seen
            THEN [seen |-> acc.seen \cup {ms[1]},
                  ordered |-> Append(acc.ordered, ms[1])]
            ELSE acc)

\* one iteration of the outer loop of extract_almas_from_text
extract_almas_step(acc, rawline) ==
    LET line == clean_line(rawline)
    IN IF line = <<>> \/ StartsWith(line, HASH) THEN acc
       ELSE extract_almas_matches(ALMA_RE_findall(line), acc)

RECURSIVE extract_almas_loop(_, _)
extract_almas_loop(lines, acc) ==
    IF Len(lines) = 0 THEN acc
    ELSE extract_almas_loop(Tail(lines), extract_almas_step(acc, lines[1]))

\* alma_batch_classifier_app.extract_almas_from_text
extract_almas_from_text(t) ==
    extract_almas_loop(SplitLines(t), [seen |-> {}, ordered |-> <<>>]).ordered

\* alma_batch_classifier_app.parse_uploaded_txt (the text is already decoded)
parse_uploaded_txt(t) == extract_almas_from_text(t)

---------------------------------------------------------------------------
(* Reference set loaders *)

\* the lines "for line in f" yields, each stripped by the loop body
FileLines(t) == SplitLines(t)

\* classify_alma_list.load_geniza_set and alma_lookup_app.load_alma_list:
\* the loop over the lines of an existing file
clean_id_list(t) ==
    {clean_id(Strip(l)) : l \in
        {FileLines(t)[i] : i \in {j \in 1..Len(FileLines(t)) :
            /\ Strip(FileLines(t)[j]) # <<>>
            /\ ~StartsWith(Strip(FileLines(t)[j]), HASH)}}} \ {<<>>}

\* alma_batch_classifier_app.load_geniza_set, for an existing file
batch_geniza_list(t) == Range(extract_almas_from_text(t))

\* alma_catalogue_v1.load_geniza_set, for an existing file
catalogue_geniza_list(t) ==
    {extract_alma(FileLines(t)[i]) : i \in 1..Len(FileLines(t))} \ {Absent}


---------------------------------------------------------------------------
(* What one spreadsheet row yields, per builder *)

\* load_graph of classify_alma_list and of alma_lookup_app: the child of a row
clean_id_child(cell) == clean_id(cell)

\* load_graph of classify_alma_list and of alma_lookup_app: the parents list
clean_id_parents(cell) ==
    LET parent_field == Strip(cell)
        split == Split(parent_field, PARENT_SEPARATOR)
        parts == [i \in 1..Len(split) |-> Strip(split[i])]
        cleaned == [i \in 1..Len(parts) |-> clean_id(parts[i])]
    IN IF parent_field = <<>> THEN <<>>
       ELSE SelectSeq(cleaned, LAMBDA p : p # <<>>)

\* load_graph of alma_batch_classifier_app: the child of a row
batch_child(cell) ==
    LET child_raw == clean_line(cell)
        child_ids == ALMA_RE_findall(child_raw)
    IN IF child_raw = <<>> THEN Absent
       ELSE IF Len(child_ids) = 0 THEN Absent
       ELSE child_ids[1]

\* load_graph of alma_batch_classifier_app: the parents list
batch_parents(cell) ==
    LET parent_field == clean_line(cell)
        split == Split(parent_field, PARENT_SEPARATOR)
        parts == [i \in 1..Len(split) |-> clean_line(split[i])]
    IN IF parent_field = <<>> THEN <<>>
       ELSE Flatten([i \in 1..Len(parts) |-> ALMA_RE_findall(parts[i])])

\* load_role_map: the child of a row (an empty cell is read as NaN, whose
\* text "nan" holds no digit, as the empty text holds none)
role_map_child(cell) == extract_alma(cell)

\* load_role_map: the parents a row adds to parents_set
role_map_parents(cell) ==
    LET split == Split(cell, PARENT_SEPARATOR)
        found == [i \in 1..Len(split) |-> extract_alma(split[i])]
    IN IF Strip(cell) = <<>> THEN <<>>
       ELSE SelectSeq(found, LAMBDA p : p # Absent)

Apps == {"classify", "batch", "lookup", "catalogue"}
GraphApps == {"classify", "batch", "lookup"}
BatchApps == {"classify", "batch"}

ChildOf(a, cell) ==
    CASE a \in {"classify", "lookup"} -> clean_id_child(cell)
      [] a = "batch" -> batch_child(cell)
      [] a = "catalogue" -> role_map_child(cell)

ParentsOf(a, cell) ==
    CASE a \in {"classify", "lookup"} -> clean_id_parents(cell)
      [] a = "batch" -> batch_parents(cell)
      [] a = "catalogue" -> role_map_parents(cell)

\* the reference set a front end loads from an existing list file
ListIds(a, t) ==
    CASE a \in {"classify", "lookup"} -> clean_id_list(t)
      [] a = "batch" -> batch_geniza_list(t)
      [] a = "catalogue" -> catalogue_geniza_list(t)

\* the identifiers a front end looks up for the text its user submits:
\* an uploaded batch (classify, batch) or the text typed in the box
QueryIds(a, t) ==
    CASE a = "classify" -> Range(parse_txt_ids(t))
      [] a = "batch" -> Range(parse_uploaded_txt(t))
      [] a = "lookup" -> {clean_id(t)} \ {<<>>}
      [] a = "catalogue" -> {extract_alma(Strip(t))} \ {Absent}


---------------------------------------------------------------------------
(* Column names and the schema check *)

Upper == <<"A", "C", "D", "E", "H", "I", "L", "M", "N", "P", "R", "T">>
LowerOf == <<"a", "c", "d", "e", "h", "i", "l", "m", "n", "p", "r", "t">>

\* str.lower()
Lower(s) ==
    [i \in 1..Len(s) |->
        IF \E k \in 1..Len(Upper) : Upper[k] = s[i]
        THEN LowerOf[CHOOSE k \in 1..Len(Upper) : Upper[k] = s[i]]
        ELSE s[i]]

\* sub in s
Contains(s, sub) == FindSep(s, sub) # 0

Name_child == <<"c", "h", "i", "l", "d">>
Name_parent == <<"p", "a", "r", "e", "n", "t">>

\* [c for c in df.columns if token in c.lower()]
Candidates(cols, token) ==
    SelectSeq(cols, LAMBDA c : Contains(Lower(c), token))

\* the schema test of the three load_graph builders
load_graph_schema_ok(cols) ==
    ~(Candidates(cols, Name_child) = <<>> \/ Candidates(cols, Name_parent) = <<>>)

\* the schema test of load_role_map: "child" in hp.columns and "parent" in ...
role_map_schema_ok(cols) ==
    ~(Name_child \notin Range(cols) \/ Name_parent \notin Range(cols))

SchemaOk(a, cols) ==
    IF a = "catalogue" THEN role_map_schema_ok(cols)
    ELSE load_graph_schema_ok(cols)

IndexOf(cols, name) == CHOOSE i \in 1..Len(cols) : cols[i] = name

\* child_col = child_cols[0]; row.get("child") in load_role_map
ChildCol(a, cols) ==
    IF a = "catalogue" THEN IndexOf(cols, Name_child)
    ELSE IndexOf(cols, Candidates(cols, Name_child)[1])

\* parent_col = parent_cols[0]; row.get("parent") in load_role_map
ParentCol(a, cols) ==
    IF a = "catalogue" THEN IndexOf(cols, Name_parent)
    ELSE IndexOf(cols, Candidates(cols, Name_parent)[1])

\* the column names the schema error's message lists
SchemaErrorOf(a, cols) ==
    IF a = "lookup" THEN [kind |-> "schema", listed |-> <<>>]
    ELSE [kind |-> "schema", listed |-> cols]

MissingError == [kind |-> "missing", listed |-> <<>>]

---------------------------------------------------------------------------
(* The two adjacency mappings *)

\* a setdefault that resets the entry of a key already present
SetDefault_reset(m, k) ==
    [x \in DOMAIN m \cup {k} |-> IF x = k THEN {} ELSE m[x]]

\* d.setdefault(k, set())
SetDefault(m, k) ==
    [x \in DOMAIN m \cup {k} |-> IF x \in DOMAIN m THEN m[x] ELSE {}]

\* d[k].add(v)
AddTo(m, k, v) == [m EXCEPT ![k] = @ \cup {v}]

\* the loop body without the update of parent_to_children
add_pair_oneway(g, child, p) ==
    [ctp |-> AddTo(g.ctp, child, p), ptc |-> g.ptc]

\* child_to_parents[child].add(p)
\* parent_to_children.setdefault(p, set()).add(child)
add_pair(g, child, p) ==
    [ctp |-> AddTo(g.ctp, child, p),
     ptc |-> AddTo(SetDefault(g.ptc, p), p, child)]

\* for p in parents: ...
RECURSIVE add_parents(_, _, _)
add_parents(g, child, parents) ==
    IF Len(parents) = 0 THEN g
    ELSE add_parents(add_pair(g, child, parents[1]), child, Tail(parents))

\* one iteration of the row loop of load_graph, g = [ctp, ptc]
load_graph_row(a, g, childCell, parentCell) ==
    LET child == ChildOf(a, childCell)
        parents == ParentsOf(a, parentCell)
    IN IF child = Absent THEN g
       ELSE add_parents([ctp |-> SetDefault(g.ctp, child), ptc |-> g.ptc],
                        child, parents)

\* one iteration of the row loop of load_role_map, r = [children, parents]
load_role_map_row(r, childCell, parentCell) ==
    LET child == role_map_child(childCell)
    IN [children |-> IF child # Absent THEN r.children \cup {child}
                     ELSE r.children,
        parents |-> r.parents \cup Range(role_map_parents(parentCell))]

\* the role dict load_role_map builds from its two sets
role_of_sets(ps, cs) ==
    [x \in ps \cup cs |->
        IF x \in cs THEN (IF x \in ps THEN "Both" ELSE "Child")
        ELSE "Parent"]

---------------------------------------------------------------------------
(* Values of the variables a specification leaves alone *)

EmptyMap == [k \in {} |-> {}]

NoError == [kind |-> "", listed |-> <<>>]

NoDerived == [list |-> {}, child |-> {}, parent |-> {}, query |-> {}]

NormIdle ==
    raw = <<>> /\ normFn = "none" /\ once = <<>> /\ twice = <<>>
    /\ derived = NoDerived

IngestIdle == text = <<>> /\ ids = <<>>

GraphIdle ==
    /\ table = <<>> /\ geniza_set = {}
    /\ child_to_parents = EmptyMap /\ parent_to_children = EmptyMap
    /\ parents_set = {} /\ children_set = {} /\ role_map = EmptyMap
    /\ error = NoError

NoFile == [present |-> FALSE, rows |-> <<>>]

LookupIdle ==
    /\ uploaded = NoFile /\ tmp_file = NoFile
    /\ xlsx_path = "" /\ graph_cache = EmptyMap
    /\ alma_in = <<>> /\ query_alma = <<>>
    /\ in_geniza = FALSE
    /\ lookup_parents = <<>> /\ lookup_children = <<>>

ClassIdle ==
    /\ genizah = <<>> /\ not_genizah = <<>>
    /\ parents_only = <<>> /\ children_and_parents = <<>>
    /\ children_only = <<>>
    /\ submitted_children = <<>> /\ parents_list = <<>>
    /\ parent_to_childcount = EmptyMap /\ mapping_rows = <<>>
    /\ top_level_parents = <<>> /\ standalone = <<>>

---------------------------------------------------------------------------
(* SpecNorm: the normalizers as pure functions of one raw text *)

MaxNoise == 2

SeqsUpTo(S, n) == UNION {[1..k -> S] : k \in 0..n}

NoiseChars == {APOS, SP, RLM, LF}

NormBodies ==
    { Rep("1", 8),
      Rep("2", 6),
      Rep("1", 8) \o <<SP>> \o Rep("2", 8),
      <<HASH>> \o Rep("1", 8),
      <<"x">> \o Rep("3", 8),
      <<"5", "0">> }

NormTrailers == {<<>>, <<SP>>, <<RLM>>}

RawInputs ==
    {p \o b \o t : p \in SeqsUpTo(NoiseChars, MaxNoise),
                   b \in NormBodies, t \in NormTrailers}

NormFns == {"clean_id", "extract_alma"}

ApplyNorm(f, x) ==
    CASE f = "clean_id" -> clean_id(x)
      [] f = "extract_alma" -> extract_alma(x)

NormInit ==
    /\ app \in Apps
    /\ pc = "input"
    /\ raw \in RawInputs
    /\ normFn = "none" /\ once = <<>> /\ twice = <<>> /\ derived = NoDerived
    /\ IngestIdle /\ GraphIdle /\ ClassIdle /\ LookupIdle
    /\ xlsxExists = TRUE /\ listExists = TRUE
    /\ columns = <<>> /\ listText = <<>>

\* normalize(x)
Normalize(f) ==
    /\ pc = "input"
    /\ normFn' = f
    /\ once' = ApplyNorm(f, raw)
    /\ pc' = "once"
    /\ UNCHANGED <<app, lookupVars, raw, twice, derived, ingestVars, envVars, graphVars,
                   classVars>>

\* normalize(normalize(x)), for a result that is not absent
Renormalize ==
    /\ pc = "once"
    /\ once # Absent
    /\ twice' = ApplyNorm(normFn, once)
    /\ pc' = "twice"
    /\ UNCHANGED <<app, lookupVars, raw, normFn, once, derived, ingestVars, envVars,
                   graphVars, classVars>>

\* the identifiers the running front end derives from the one-line text raw
\* in each place it reads text: a line of the reference list, a child cell,
\* a parent cell, the user's query
Derive ==
    /\ pc = "input"
    /\ LF \notin Range(raw)
    /\ derived' = [list |-> ListIds(app, raw),
                   child |-> {ChildOf(app, raw)} \ {Absent},
                   parent |-> Range(ParentsOf(app, raw)),
                   query |-> QueryIds(app, raw)]
    /\ pc' = "derived"
    /\ UNCHANGED <<app, lookupVars, raw, normFn, once, twice, ingestVars, envVars,
                   graphVars, classVars>>

NormNext ==
    \/ \E f \in NormFns : Normalize(f)
    \/ Renormalize
    \/ Derive

SpecNorm == NormInit /\ [][NormNext]_vars

\* C3: normalizing a non-absent result again returns the same identifier,
\* for clean_id and for extract_alma, on every input text.
C3_NormalizationIdempotent == pc = "twice" => twice = once

\* C10: within each front end, a text yields the same identifier(s) whether
\* it is read as a reference-list line, a child cell, a parent-cell segment
\* or the user's query.
C10_UniformPolicy ==
    pc = "derived" =>
        /\ derived.list = derived.child
        /\ derived.child = derived.parent
        /\ derived.parent = derived.query


---------------------------------------------------------------------------
(* SpecIngest: ingestion of an uploaded text by the two batch front ends *)

MaxLines == 3

IdA == Rep("1", 8)
IdB == Rep("2", 8)
IdC == Rep("3", 8)

CommentLine == <<HASH, "c", "o", "m", "m", "e", "n", "t">>

IngestLines ==
    { IdA,
      IdB,
      <<SP, APOS>> \o IdA \o <<RLM, SP>>,
      IdB \o <<SP>> \o IdA,
      <<HASH>> \o IdB,
      <<>> }

\* "A\nB\nA\n#comment\n\nC", with letters and with identifiers of 8 digits
ExampleLetters ==
    JoinLines(<< <<"A">>, <<"B">>, <<"A">>, CommentLine, <<>>, <<"C">> >>)

ExampleIds == JoinLines(<<IdA, IdB, IdA, CommentLine, <<>>, IdC>>)

IngestTexts ==
    LET joined == {JoinLines(ls) : ls \in SeqsUpTo(IngestLines, MaxLines)}
    IN joined \cup {t \o <<LF>> : t \in joined}
       \cup {ExampleLetters, ExampleIds}

IngestInit ==
    /\ app \in BatchApps
    /\ pc = "upload"
    /\ text \in IngestTexts
    /\ ids = <<>>
    /\ NormIdle /\ GraphIdle /\ ClassIdle /\ LookupIdle
    /\ xlsxExists = TRUE /\ listExists = TRUE
    /\ columns = <<>> /\ listText = <<>>

\* classify_alma_list: ids = parse_txt_ids(uploaded.getvalue())
IngestClassify ==
    /\ pc = "upload" /\ app = "classify"
    /\ ids' = parse_txt_ids(text)
    /\ pc' = IF ids' = <<>> THEN "empty_input" ELSE "ingested"
    /\ UNCHANGED <<app, lookupVars, text, normVars, envVars, graphVars, classVars>>

\* alma_batch_classifier_app: ids = parse_uploaded_txt(uploaded.getvalue())
IngestBatch ==
    /\ pc = "upload" /\ app = "batch"
    /\ ids' = parse_uploaded_txt(text)
    /\ pc' = IF ids' = <<>> THEN "empty_input" ELSE "ingested"
    /\ UNCHANGED <<app, lookupVars, text, normVars, envVars, graphVars, classVars>>

IngestNext == IngestClassify \/ IngestBatch

SpecIngest == IngestInit /\ [][IngestNext]_vars

\* The line as the front end trims it before it decides to skip it.
TrimmedLine(a, l) == IF a = "classify" THEN Strip(l) ELSE clean_line(l)

\* A line that is neither blank nor a comment.
KeptLine(a, l) ==
    TrimmedLine(a, l) # <<>> /\ ~StartsWith(TrimmedLine(a, l), HASH)

\* The identifiers one line normalizes to, in their order on the line.
LineIds(a, l) ==
    IF a = "classify"
    THEN (IF clean_id(l) # <<>> THEN <<clean_id(l)>> ELSE <<>>)
    ELSE ALMA_RE_findall(clean_line(l))

\* The indices of the lines of t that are kept.
KeptIndices(a, t) ==
    {n \in 1..Len(SplitLines(t)) : KeptLine(a, SplitLines(t)[n])}

\* The places <<line, position on the line>> at which id occurs in text t.
Occurrences(a, t, id) ==
    LET ls == SplitLines(t)
    IN UNION {{<<i, j>> : j \in {k \in 1..Len(LineIds(a, ls[i])) :
                                    LineIds(a, ls[i])[k] = id}} :
                 i \in KeptIndices(a, t)}

Before(p, q) == p[1] < q[1] \/ (p[1] = q[1] /\ p[2] < q[2])

FirstOccurrence(a, t, id) ==
    CHOOSE p \in Occurrences(a, t, id) :
        \A q \in Occurrences(a, t, id) : p = q \/ Before(p, q)

IngestedIds(a, t) ==
    UNION {Range(LineIds(a, SplitLines(t)[i])) : i \in KeptIndices(a, t)}

\* C5: the ingested batch has no duplicate, holds exactly the identifiers
\* of the lines that are neither blank nor comments, in the order of their
\* first occurrence in the text; the example text gives [A, B, C].
C5_IngestDedupOrdered ==
    pc \in {"ingested", "empty_input"} =>
        /\ \A m, n \in 1..Len(ids) : m # n => ids[m] # ids[n]
        /\ Range(ids) = IngestedIds(app, text)
        /\ \A m, n \in 1..Len(ids) :
              m < n => Before(FirstOccurrence(app, text, ids[m]),
                              FirstOccurrence(app, text, ids[n]))
        /\ text = ExampleIds => ids = <<IdA, IdB, IdC>>
        /\ (text = ExampleLetters /\ app = "classify")
              => ids = << <<"A">>, <<"B">>, <<"C">> >>

\* C5 witness: the example text was ingested (by the batch classifier), a
\* repeated identifier collapsed and the comment and blank lines dropped.
C5_Witness ==
    /\ pc = "ingested" /\ app = "batch"
    /\ text = ExampleIds
    /\ ids = <<IdA, IdB, IdC>>


---------------------------------------------------------------------------
(* Loading the background data: the script of each front end up to the    *)
(* point where it accepts a query                                         *)

MaxRows == 2

\* classify, batch: missing-file check, load_geniza_set(), load_graph()
\* lookup:          load_graph(xlsx_path), then load_alma_list(...)
\* catalogue:       load_geniza_set(), then load_role_map()
FirstStage(a) ==
    CASE a \in BatchApps -> "check"
      [] a = "lookup" -> "graph"
      [] a = "catalogue" -> "list"

AfterList(a) == IF a = "lookup" THEN "ready" ELSE "graph"

AfterGraph(a) == IF a = "lookup" THEN "list" ELSE "ready"

\* classify_alma_list / alma_batch_classifier_app: "missing" check, st.stop()
CheckFiles ==
    /\ pc = "check"
    /\ IF ~listExists \/ ~xlsxExists
       THEN pc' = "halted" /\ error' = MissingError
       ELSE pc' = "list" /\ error' = error
    /\ UNCHANGED <<app, lookupVars, normVars, ingestVars, envVars, table, geniza_set,
                   child_to_parents, parent_to_children, parents_set,
                   children_set, role_map, classVars>>

\* load_geniza_set() / load_alma_list(str(GENIZA_LIST_FILE))
LoadList ==
    /\ pc = "list"
    /\ IF listExists
       THEN /\ geniza_set' = ListIds(app, listText)
            /\ pc' = AfterList(app) /\ error' = error
       ELSE IF app \in BatchApps
            THEN \* raise FileNotFoundError, caught: st.error, st.stop
                 /\ pc' = "halted" /\ error' = MissingError
                 /\ geniza_set' = geniza_set
            ELSE \* return set()
                 /\ geniza_set' = {}
                 /\ pc' = AfterList(app) /\ error' = error
    /\ UNCHANGED <<app, lookupVars, normVars, ingestVars, envVars, table,
                   child_to_parents, parent_to_children, parents_set,
                   children_set, role_map, classVars>>

\* load_graph / load_role_map up to its row loop: reading the spreadsheet
\* and locating the two columns
OpenTable ==
    /\ pc = "graph"
    /\ IF ~xlsxExists
       THEN IF app = "catalogue"
            THEN \* except FileNotFoundError: return {}
                 /\ role_map' = EmptyMap
                 /\ pc' = AfterGraph(app) /\ error' = error
            ELSE /\ pc' = "halted" /\ error' = MissingError
                 /\ role_map' = role_map
       ELSE IF ~SchemaOk(app, columns)
            THEN /\ pc' = "halted" /\ error' = SchemaErrorOf(app, columns)
                 /\ role_map' = role_map
            ELSE /\ pc' = "rows" /\ error' = error
                 /\ role_map' = role_map
    /\ UNCHANGED <<app, lookupVars, normVars, ingestVars, envVars, table, geniza_set,
                   child_to_parents, parent_to_children, parents_set,
                   children_set, classVars>>

\* one iteration of "for _, row in df.iterrows()" in load_graph
LoadGraphRow(row) ==
    /\ pc = "rows" /\ app \in GraphApps
    /\ Len(table) < MaxRows
    /\ Len(row) = Len(columns)
    /\ LET g == load_graph_row(app,
                    [ctp |-> child_to_parents, ptc |-> parent_to_children],
                    row[ChildCol(app, columns)], row[ParentCol(app, columns)])
       IN /\ child_to_parents' = g.ctp
          /\ parent_to_children' = g.ptc
    /\ table' = Append(table, row)
    /\ UNCHANGED <<app, lookupVars, pc, normVars, ingestVars, envVars, geniza_set,
                   parents_set, children_set, role_map, error, classVars>>

\* one iteration of "for _, row in hp.iterrows()" in load_role_map
LoadRoleMapRow(row) ==
    /\ pc = "rows" /\ app = "catalogue"
    /\ Len(table) < MaxRows
    /\ Len(row) = Len(columns)
    /\ LET r == load_role_map_row(
                    [children |-> children_set, parents |-> parents_set],
                    row[ChildCol(app, columns)], row[ParentCol(app, columns)])
       IN /\ children_set' = r.children
          /\ parents_set' = r.parents
    /\ table' = Append(table, row)
    /\ UNCHANGED <<app, lookupVars, pc, normVars, ingestVars, envVars, geniza_set,
                   child_to_parents, parent_to_children, role_map, error,
                   classVars>>

\* the end of the row loop: load_graph returns its two mappings,
\* load_role_map builds the role dict from its two sets
FinishLoad ==
    /\ pc = "rows"
    /\ role_map' = IF app = "catalogue"
                   THEN role_of_sets(parents_set, children_set)
                   ELSE role_map
    /\ pc' = AfterGraph(app)
    /\ UNCHANGED <<app, lookupVars, normVars, ingestVars, envVars, table, geniza_set,
                   child_to_parents, parent_to_children, parents_set,
                   children_set, error, classVars>>

---------------------------------------------------------------------------
(* SpecBuild: the four builders on noisy rows *)

Sep3 == <<SP>> \o PARENT_SEPARATOR \o <<SP>>

Id50 == <<"5", "0">>
Id100 == <<"1", "0", "0">>
Id200 == <<"2", "0", "0">>
Id300 == <<"3", "0", "0">>

BuildChildCells ==
    { IdA,
      <<SP, APOS>> \o IdB \o <<RLM>>,
      Id50,
      <<>> }

BuildParentCells ==
    { <<>>,
      IdA,
      IdB \o Sep3 \o IdC,
      Id100 \o Sep3 \o Id200 \o Sep3 \o Id300,
      IdC \o PARENT_SEPARATOR \o <<"x">> }

BuildRows == {<<c, p>> : c \in BuildChildCells, p \in BuildParentCells}

ListTexts == {JoinLines(<<IdA, <<HASH>> \o IdB>>), <<>>}

GenizaList == JoinLines(<<IdA, <<HASH>> \o IdB>>)

BuildInit ==
    /\ app \in Apps
    /\ pc = FirstStage(app)
    /\ xlsxExists = TRUE /\ listExists = TRUE
    /\ columns = <<Name_child, Name_parent>>
    /\ listText = GenizaList
    /\ NormIdle /\ IngestIdle /\ GraphIdle /\ ClassIdle /\ LookupIdle

BuildNext ==
    \/ CheckFiles
    \/ LoadList
    \/ OpenTable
    \/ \E row \in BuildRows : LoadGraphRow(row)
    \/ \E row \in BuildRows : LoadRoleMapRow(row)
    \/ FinishLoad

SpecBuild == BuildInit /\ [][BuildNext]_vars


\* The identifiers of one segment of a parent cell, under the policy of
\* front end a.
SegmentIds(a, seg) ==
    CASE a \in {"classify", "lookup"} -> {clean_id(seg)} \ {<<>>}
      [] a = "batch" -> Range(ALMA_RE_findall(clean_line(seg)))
      [] a = "catalogue" -> {extract_alma(seg)} \ {Absent}

\* The identifiers of a parent cell: split on "|||", each segment normalized.
CellParents(a, cell) ==
    UNION {SegmentIds(a, seg) : seg \in Range(Split(cell, PARENT_SEPARATOR))}

\* The rows read so far whose child cell normalizes to c.
RowsOfChild(c) ==
    {i \in 1..Len(table) : ChildOf(app, table[i][ChildCol(app, columns)]) = c}

ValidRows ==
    {i \in 1..Len(table) :
        ChildOf(app, table[i][ChildCol(app, columns)]) # Absent}

\* C1: the two mappings mirror each other after any sequence of rows.
C1_Mirror ==
    /\ \A c \in DOMAIN child_to_parents : \A p \in child_to_parents[c] :
          p \in DOMAIN parent_to_children /\ c \in parent_to_children[p]
    /\ \A p \in DOMAIN parent_to_children : \A c \in parent_to_children[p] :
          c \in DOMAIN child_to_parents /\ p \in child_to_parents[c]

\* C1 witness: a load_graph run has ended on a table with a repeated child,
\* a multi-parent cell and an empty parent cell.
C1_Witness ==
    /\ app \in GraphApps /\ pc \in {"ready", "list"}
    /\ Len(table) = 2
    /\ table[1][1] = table[2][1]
    /\ table[1][2] = <<>>
    /\ \E c \in DOMAIN child_to_parents : Cardinality(child_to_parents[c]) = 2

\* The union statement of C6, for the rows read so far.
ParentsAccumulate ==
    app \in GraphApps =>
        /\ DOMAIN child_to_parents =
              {ChildOf(app, table[i][ChildCol(app, columns)]) : i \in ValidRows}
        /\ \A c \in DOMAIN child_to_parents :
              child_to_parents[c] =
                  UNION {CellParents(app, table[i][ParentCol(app, columns)]) :
                            i \in RowsOfChild(c)}

Cell100 == Id100 \o Sep3 \o Id200 \o Sep3 \o Id300

\* A table holding the row (childCell, parentCell), and no other parents
\* for that child cell, gives child c exactly the parents ps, each of which
\* maps back to c.
RowGives(childCell, parentCell, c, ps) ==
    ( /\ \E i \in 1..Len(table) : table[i] = <<childCell, parentCell>>
      /\ \A i \in 1..Len(table) :
            table[i][1] = childCell => table[i][2] \in {parentCell, <<>>} )
    => /\ c \in DOMAIN child_to_parents
       /\ child_to_parents[c] = ps
       /\ \A p \in ps : p \in DOMAIN parent_to_children
                        /\ c \in parent_to_children[p]

\* C6 as stated: the parent set of each child is the union over its rows of
\* the normalized segments of the parent cells, and the cell
\* "100 ||| 200 ||| 300" for child "50" gives {100, 200, 300}, in every
\* load_graph.
C6_UnionAndExample ==
    /\ ParentsAccumulate
    /\ app \in GraphApps => RowGives(Id50, Cell100, Id50, {Id100, Id200, Id300})

\* C6 amended: the union statement holds in every load_graph; the example
\* holds as written in the clean_id builders, and in the batch classifier
\* for identifiers that are runs of at least 8 digits.
C6_UnionAndExampleByPolicy ==
    /\ ParentsAccumulate
    /\ app \in {"classify", "lookup"} =>
          RowGives(Id50, Cell100, Id50, {Id100, Id200, Id300})
    /\ app \in GraphApps => RowGives(IdA, IdB \o Sep3 \o IdC, IdA, {IdB, IdC})
    /\ app = "batch" => Id50 \notin DOMAIN child_to_parents

\* C6 witness: the batch classifier read the multi-parent cell on one row
\* and another parent for the same child on a later row; the set holds all.
C6_Witness ==
    /\ app = "batch" /\ pc = "ready"
    /\ table = << <<IdA, IdB \o Sep3 \o IdC>>, <<IdA, IdA>> >>
    /\ child_to_parents[IdA] = {IdA, IdB, IdC}

\* C7: a row whose child cell yields no identifier raises no error and
\* leaves the hierarchy data of every builder unchanged.
C7_InvalidChildRowSkipped ==
    [][ ( /\ Len(table') = Len(table) + 1
          /\ ChildOf(app, table'[Len(table')][ChildCol(app, columns)]) = Absent )
        => /\ child_to_parents' = child_to_parents
           /\ parent_to_children' = parent_to_children
           /\ children_set' = children_set
           /\ parents_set' = parents_set
           /\ error' = error ]_vars

---------------------------------------------------------------------------
(* SpecLoad: the sources a front end finds: present or missing files,     *)
(* arbitrary column names                                                 *)

Name_ChildALMA == <<"C", "h", "i", "l", "d", SP, "A", "L", "M", "A">>
Name_ParentALMA == <<"P", "a", "r", "e", "n", "t", SP, "A", "L", "M", "A">>
Name_id == <<"i", "d">>

ColumnLists ==
    { <<Name_child, Name_parent>>,
      <<Name_ChildALMA, Name_ParentALMA>>,
      <<Name_id, Name_parent>>,
      <<Name_ChildALMA, Name_id>>,
      <<Name_id, Name_ChildALMA, Name_child, Name_parent>>,
      <<Name_parent, Name_ParentALMA, Name_child>> }

LoadCells == {IdA, IdB}

LoadInit ==
    /\ app \in Apps
    /\ pc = FirstStage(app)
    /\ xlsxExists \in BOOLEAN /\ listExists \in BOOLEAN
    /\ columns \in ColumnLists
    /\ listText \in ListTexts
    /\ NormIdle /\ IngestIdle /\ GraphIdle /\ ClassIdle /\ LookupIdle

LoadNext ==
    \/ CheckFiles
    \/ LoadList
    \/ OpenTable
    \/ \E row \in [1..Len(columns) -> LoadCells] : LoadGraphRow(row)
    \/ \E row \in [1..Len(columns) -> LoadCells] : LoadRoleMapRow(row)
    \/ FinishLoad

SpecLoad == LoadInit /\ [][LoadNext]_vars

\* Some column name contains the token, case-insensitively.
HasToken(cols, token) ==
    \E i \in 1..Len(cols) : Contains(Lower(cols[i]), token)

\* The first column whose name contains the token.
FirstWith(cols, token) ==
    CHOOSE i \in 1..Len(cols) :
        /\ Contains(Lower(cols[i]), token)
        /\ \A j \in 1..(i - 1) : ~Contains(Lower(cols[j]), token)

\* C8: in every builder the build fails with a schema error listing the
\* column names exactly when "child" or "parent" occurs in no column name;
\* otherwise it succeeds and reads the first matching column of each role.
C8_SchemaBySubstring ==
    LET ok == HasToken(columns, Name_child) /\ HasToken(columns, Name_parent)
    IN /\ error.kind = "schema" => (~ok /\ error.listed = columns)
       /\ ok => error.kind # "schema"
       /\ pc = "rows" => ok
       /\ (ok /\ Len(table) > 0) =>
             LET c == ChildOf(app, table[Len(table)][FirstWith(columns, Name_child)])
             IN c # Absent =>
                   IF app = "catalogue" THEN c \in children_set
                   ELSE c \in DOMAIN child_to_parents

\* C9: no front end accepts queries when the spreadsheet or the Genizah
\* list is missing: the load fails and the script halts instead.
C9_MissingSourceHalts ==
    /\ pc = "ready" => (xlsxExists /\ listExists)
    /\ (pc = "halted" /\ ~(xlsxExists /\ listExists) /\ error.kind # "schema")
          => error = MissingError


---------------------------------------------------------------------------
(* Classification of an uploaded batch *)

\* a in child_to_parents and len(child_to_parents[a]) > 0
is_child(ctp, a) == a \in DOMAIN ctp /\ Cardinality(ctp[a]) > 0

\* a in parent_to_children and len(parent_to_children[a]) > 0
is_parent(ptc, a) == a \in DOMAIN ptc /\ Cardinality(ptc[a]) > 0

NoRoles ==
    [parents_only |-> <<>>, children_and_parents |-> <<>>,
     children_only |-> <<>>]

\* the loop body with three independent tests, the first without its
\* "and not is_child"
role_step_noelif(ctp, ptc, acc, a) ==
    [parents_only |->
        IF is_parent(ptc, a) THEN Append(acc.parents_only, a)
        ELSE acc.parents_only,
     children_and_parents |->
        IF is_parent(ptc, a) /\ is_child(ctp, a)
        THEN Append(acc.children_and_parents, a)
        ELSE acc.children_and_parents,
     children_only |->
        IF ~is_parent(ptc, a) /\ is_child(ctp, a)
        THEN Append(acc.children_only, a)
        ELSE acc.children_only]

\* the loop body with a plain "else" in place of its last "elif"
role_step_else(ctp, ptc, acc, a) ==
    IF is_parent(ptc, a) /\ ~is_child(ctp, a)
    THEN [acc EXCEPT !.parents_only = Append(@, a)]
    ELSE IF is_parent(ptc, a) /\ is_child(ctp, a)
    THEN [acc EXCEPT !.children_and_parents = Append(@, a)]
    ELSE [acc EXCEPT !.children_only = Append(@, a)]

\* one iteration of the role loop ("for a in ids": if / elif / elif)
role_step(ctp, ptc, acc, a) ==
    IF is_parent(ptc, a) /\ ~is_child(ctp, a)
    THEN [acc EXCEPT !.parents_only = Append(@, a)]
    ELSE IF is_parent(ptc, a) /\ is_child(ctp, a)
    THEN [acc EXCEPT !.children_and_parents = Append(@, a)]
    ELSE IF ~is_parent(ptc, a) /\ is_child(ctp, a)
    THEN [acc EXCEPT !.children_only = Append(@, a)]
    ELSE acc

RECURSIVE role_loop(_, _, _, _)
role_loop(ctp, ptc, batch, acc) ==
    IF Len(batch) = 0 THEN acc
    ELSE role_loop(ctp, ptc, Tail(batch), role_step(ctp, ptc, acc, batch[1]))

NoTopLevel == [top_level_parents |-> <<>>, standalone |-> <<>>]

\* the loop body with has_parents taken as "a in child_to_parents"
top_level_step_keyed(ctp, ptc, acc, a) ==
    LET has_parents == a \in DOMAIN ctp
        has_children == is_parent(ptc, a)
    IN IF ~has_parents /\ has_children
       THEN [acc EXCEPT !.top_level_parents = Append(@, a)]
       ELSE IF ~has_parents /\ ~has_children
       THEN [acc EXCEPT !.standalone = Append(@, a)]
       ELSE acc

\* one iteration of the top-level / standalone loop of the batch classifier
top_level_step(ctp, ptc, acc, a) ==
    LET has_parents == a \in DOMAIN ctp /\ Cardinality(ctp[a]) > 0
        has_children == a \in DOMAIN ptc /\ Cardinality(ptc[a]) > 0
    IN IF ~has_parents /\ has_children
       THEN [acc EXCEPT !.top_level_parents = Append(@, a)]
       ELSE IF ~has_parents /\ ~has_children
       THEN [acc EXCEPT !.standalone = Append(@, a)]
       ELSE acc

RECURSIVE top_level_loop(_, _, _, _)
top_level_loop(ctp, ptc, batch, acc) ==
    IF Len(batch) = 0 THEN acc
    ELSE top_level_loop(ctp, ptc, Tail(batch),
                        top_level_step(ctp, ptc, acc, batch[1]))

\* The code point of a digit: the order Python's sorted() gives strings
ord(c) ==
    CASE c = "0" -> 48 [] c = "1" -> 49 [] c = "2" -> 50
      [] c = "3" -> 51 [] c = "5" -> 53

\* s < t for two strings
RECURSIVE str_lt(_, _)
str_lt(s, t) ==
    IF Len(t) = 0 THEN FALSE
    ELSE IF Len(s) = 0 THEN TRUE
    ELSE IF s[1] # t[1] THEN ord(s[1]) < ord(t[1])
    ELSE str_lt(Tail(s), Tail(t))

\* sorted(S) for a set of strings
RECURSIVE sorted(_)
sorted(S) ==
    IF S = {} THEN <<>>
    ELSE LET m == CHOOSE x \in S : \A y \in S \ {x} : str_lt(x, y)
         IN <<m>> \o sorted(S \ {m})

\* sep.join(items)
RECURSIVE Join(_, _)
Join(items, sep) ==
    IF Len(items) = 0 THEN <<>>
    ELSE IF Len(items) = 1 THEN items[1]
    ELSE items[1] \o sep \o Join(Tail(items), sep)

\* the dict after a read of key k that stores a default for a missing key
dict_after_get_storing(m, k) == SetDefault(m, k)

\* the dict after "k in m and len(m[k]) > 0" or "m.get(k, set())": these
\* read a plain dict and leave it as it was
dict_after_get(m, k) == m

\* the dict after the reads of one script run, one key after the other
RECURSIVE dict_after_reads(_, _)
dict_after_reads(m, keys) ==
    IF Len(keys) = 0 THEN m
    ELSE dict_after_reads(dict_after_get(m, keys[1]), Tail(keys))

\* child_to_parents.get(child, set())
dict_get(m, k) == IF k \in DOMAIN m THEN m[k] ELSE {}

\* the count update that stores 1 whatever the count was
count_parent_flat(counts, p) ==
    [x \in DOMAIN counts \cup {p} |-> IF x = p THEN 1 ELSE counts[x]]

\* parent_to_childcount[p] = parent_to_childcount.get(p, 0) + 1
count_parent(counts, p) ==
    [x \in DOMAIN counts \cup {p} |->
        IF x = p THEN (IF p \in DOMAIN counts THEN counts[p] ELSE 0) + 1
        ELSE counts[x]]

RECURSIVE count_parents(_, _)
count_parents(counts, parents) ==
    IF Len(parents) = 0 THEN counts
    ELSE count_parents(count_parent(counts, parents[1]), Tail(parents))

NoSummary ==
    [unique_parents |-> {}, parent_to_childcount |-> EmptyMap,
     mapping_rows |-> <<>>]

\* one iteration of "for child in submitted_children"
summary_step(ctp, acc, child) ==
    LET parents == sorted(dict_get(ctp, child))
    IN IF Len(parents) = 0 THEN acc
       ELSE [unique_parents |-> acc.unique_parents \cup Range(parents),
             parent_to_childcount |->
                 count_parents(acc.parent_to_childcount, parents),
             mapping_rows |->
                 Append(acc.mapping_rows,
                        [Child |-> child, Parents |-> Join(parents, Sep3)])]

RECURSIVE summary_loop(_, _, _)
summary_loop(ctp, children, acc) ==
    IF Len(children) = 0 THEN acc
    ELSE summary_loop(ctp, Tail(children),
                      summary_step(ctp, acc, children[1]))

\* the batch a front end ingests from an uploaded text
ParseUpload(a, t) ==
    IF a = "classify" THEN parse_txt_ids(t) ELSE parse_uploaded_txt(t)

\* One run of the script from the upload on: ingestion, st.stop() on an
\* empty batch, the Genizah lists, the role loop and, in the batch
\* classifier, the derived-parents summary and the top-level / standalone
\* loop.  The two mappings are what the run's reads leave of them.
ClassifyUpload(t) ==
    /\ app \in BatchApps
    /\ pc = "ready"
    /\ text' = t
    /\ ids' = ParseUpload(app, t)
    /\ IF ids' = <<>>
       THEN /\ pc' = "empty_input"
            /\ genizah' = <<>> /\ not_genizah' = <<>>
            /\ parents_only' = <<>> /\ children_and_parents' = <<>>
            /\ children_only' = <<>>
            /\ submitted_children' = <<>> /\ parents_list' = <<>>
            /\ parent_to_childcount' = EmptyMap /\ mapping_rows' = <<>>
            /\ top_level_parents' = <<>> /\ standalone' = <<>>
            /\ UNCHANGED <<child_to_parents, parent_to_children>>
       ELSE LET roles == role_loop(child_to_parents, parent_to_children,
                                   ids', NoRoles)
                children == IF app = "batch"
                            THEN roles.children_only
                                    \o roles.children_and_parents
                            ELSE <<>>
                summary == summary_loop(child_to_parents, children, NoSummary)
                tops == IF app = "batch"
                        THEN top_level_loop(child_to_parents,
                                            parent_to_children, ids', NoTopLevel)
                        ELSE NoTopLevel
            IN /\ pc' = "done"
               /\ genizah' = SelectSeq(ids', LAMBDA a : a \in geniza_set)
               /\ not_genizah' = SelectSeq(ids', LAMBDA a : a \notin geniza_set)
               /\ parents_only' = roles.parents_only
               /\ children_and_parents' = roles.children_and_parents
               /\ children_only' = roles.children_only
               /\ submitted_children' = children
               /\ parents_list' = sorted(summary.unique_parents)
               /\ parent_to_childcount' = summary.parent_to_childcount
               /\ mapping_rows' = summary.mapping_rows
               /\ top_level_parents' = tops.top_level_parents
               /\ standalone' = tops.standalone
               /\ child_to_parents' = dict_after_reads(child_to_parents, ids')
               /\ parent_to_children' =
                     dict_after_reads(parent_to_children, ids')
    /\ UNCHANGED <<app, lookupVars, normVars, envVars, table, geniza_set,
                   parents_set, children_set, role_map, error>>

\* The script run has ended; the next interaction runs the script again:
\* its lists are built anew, the st.cache_data results of load_geniza_set
\* and load_graph are reused.
NewRun ==
    /\ app \in BatchApps
    /\ pc \in {"done", "empty_input"}
    /\ pc' = "ready"
    /\ text' = <<>> /\ ids' = <<>>
    /\ genizah' = <<>> /\ not_genizah' = <<>>
    /\ parents_only' = <<>> /\ children_and_parents' = <<>>
    /\ children_only' = <<>>
    /\ submitted_children' = <<>> /\ parents_list' = <<>>
    /\ parent_to_childcount' = EmptyMap /\ mapping_rows' = <<>>
    /\ top_level_parents' = <<>> /\ standalone' = <<>>
    /\ UNCHANGED <<app, lookupVars, normVars, envVars, graphVars>>

---------------------------------------------------------------------------
(* Spec: the two batch classifiers, from start-up to classified uploads *)

MaxBatch == 2

IdD == Rep("5", 8)

SpecRows ==
    {<<c, p>> : c \in {IdA, IdB},
                p \in {<<>>, IdB, IdC, IdA \o Sep3 \o IdC}}

BatchTexts ==
    {JoinLines(ls) : ls \in SeqsUpTo({IdA, IdB, IdC, IdD}, MaxBatch)}

Init ==
    /\ app \in BatchApps
    /\ pc = "check"
    /\ xlsxExists \in BOOLEAN /\ listExists \in BOOLEAN
    /\ columns = <<Name_child, Name_parent>>
    /\ listText = GenizaList
    /\ NormIdle /\ IngestIdle /\ GraphIdle /\ ClassIdle /\ LookupIdle

Next ==
    \/ CheckFiles
    \/ LoadList
    \/ OpenTable
    \/ \E row \in SpecRows : LoadGraphRow(row)
    \/ FinishLoad
    \/ \E t \in BatchTexts : ClassifyUpload(t)
    \/ NewRun

Spec == Init /\ [][Next]_vars

\* C2: the role loop puts each input identifier in at most one bucket, and
\* the three buckets together hold exactly the inputs that have a non-empty
\* parent set or a non-empty child set.
C2_RolePartition ==
    pc = "done" =>
        LET po == Range(parents_only)
            cap == Range(children_and_parents)
            co == Range(children_only)
        IN /\ po \cap cap = {} /\ po \cap co = {} /\ cap \cap co = {}
           /\ Len(parents_only) = Cardinality(po)
           /\ Len(children_and_parents) = Cardinality(cap)
           /\ Len(children_only) = Cardinality(co)
           /\ po \cup cap \cup co =
                 {a \in Range(ids) :
                     \/ a \in DOMAIN child_to_parents
                        /\ child_to_parents[a] # {}
                     \/ a \in DOMAIN parent_to_children
                        /\ parent_to_children[a] # {}}

\* C2 witness: a classified batch with an identifier that is both child and
\* parent and one that is neither.
C2_Witness ==
    /\ pc = "done" /\ Len(ids) = 2
    /\ Len(children_and_parents) = 1
    /\ Len(parents_only) = 0 /\ Len(children_only) = 0

\* C4: in the batch classifier every row with a valid child makes the child
\* a key of child_to_parents, with the empty set when no row gives it a
\* parent; such a child, absent from parent_to_children, is classified as
\* standalone when submitted.
C4_EmptyParentChildStandalone ==
    app = "batch" =>
        /\ \A i \in ValidRows :
              LET c == ChildOf(app, table[i][ChildCol(app, columns)])
              IN /\ c \in DOMAIN child_to_parents
                 /\ (\A j \in RowsOfChild(c) :
                        CellParents(app, table[j][ParentCol(app, columns)]) = {})
                       => child_to_parents[c] = {}
        /\ pc = "done" =>
              \A i \in 1..Len(ids) :
                 ( /\ ids[i] \in DOMAIN child_to_parents
                   /\ child_to_parents[ids[i]] = {}
                   /\ ids[i] \notin DOMAIN parent_to_children )
                 => ids[i] \in Range(standalone)

\* C4 witness: a child read with an empty parent cell only was submitted
\* and is in standalone.
C4_Witness ==
    /\ app = "batch" /\ pc = "done"
    /\ \E i \in 1..Len(ids) :
          /\ ids[i] \in DOMAIN child_to_parents
          /\ child_to_parents[ids[i]] = {}
          /\ ids[i] \notin DOMAIN parent_to_children
          /\ ids[i] \in Range(standalone)

---------------------------------------------------------------------------
(* The catalogue's roles against the batch classifier's partition *)

\* load_graph on a whole spreadsheet: the row loop from the empty mappings
RECURSIVE load_graph_rows(_, _, _, _)
load_graph_rows(a, cols, rows, g) ==
    IF Len(rows) = 0 THEN g
    ELSE load_graph_rows(a, cols, Tail(rows),
             load_graph_row(a, g, rows[1][ChildCol(a, cols)],
                            rows[1][ParentCol(a, cols)]))

load_graph(a, cols, rows) ==
    load_graph_rows(a, cols, rows, [ctp |-> EmptyMap, ptc |-> EmptyMap])

\* role_map.get(alma, "—")
role_map_get(rm, a) == IF a \in DOMAIN rm THEN rm[a] ELSE "-"

\* A pure digit string of at least 8 digits
PureId(s) == Len(s) >= ALMA_RE_MIN /\ \A i \in 1..Len(s) : s[i] \in Digits

\* A parent cell that holds pure digit strings only: none, one, or several
\* joined by '|||'
PureParentCell(cell) ==
    Strip(cell) = <<>>
    \/ \A i \in 1..Len(Split(cell, PARENT_SEPARATOR)) :
          PureId(Strip(Split(cell, PARENT_SEPARATOR)[i]))

PureTable ==
    /\ columns = <<Name_child, Name_parent>>
    /\ \A i \in 1..Len(table) :
          PureId(table[i][1]) /\ PureParentCell(table[i][2])

\* The role the batch classifier's partition gives identifier a over g
PartitionRole(g, a) ==
    LET r == role_loop(g.ctp, g.ptc, <<a>>, NoRoles)
    IN IF r.parents_only = <<a>> THEN "Parent"
       ELSE IF r.children_and_parents = <<a>> THEN "Both"
       ELSE IF r.children_only = <<a>> THEN "Child"
       ELSE "-"

RoleProbes == {IdA, IdB, IdC, IdD}

\* C11: on a spreadsheet with columns 'child' and 'parent' whose cells hold
\* only pure digit strings of 8 or more digits, the role load_role_map
\* gives every identifier is the role the batch classifier's partition
\* gives it over the graph load_graph builds from the same rows.
C11_RolesAgree ==
    (app = "catalogue" /\ pc = "ready" /\ PureTable) =>
        \A a \in RoleProbes :
            role_map_get(role_map, a)
               = PartitionRole(load_graph("batch", columns, table), a)

---------------------------------------------------------------------------
(* The two views of the batch classifier *)

InBuckets(a) ==
    (IF a \in Range(parents_only) THEN 1 ELSE 0)
    + (IF a \in Range(children_and_parents) THEN 1 ELSE 0)
    + (IF a \in Range(children_only) THEN 1 ELSE 0)

\* C15: in the batch classifier top_level_parents is the same sequence as
\* parents_only, standalone is the sequence of the inputs that are in none
\* of the three role buckets, and every input is in exactly one of
\* parents_only, children_and_parents, children_only, standalone.
C15_ViewsAgree ==
    (app = "batch" /\ pc = "done") =>
        /\ top_level_parents = parents_only
        /\ standalone = SelectSeq(ids, LAMBDA a : InBuckets(a) = 0)
        /\ \A i \in 1..Len(ids) :
              InBuckets(ids[i])
                 + (IF ids[i] \in Range(standalone) THEN 1 ELSE 0) = 1

\* C15 witness: a classified batch of a top-level parent and a standalone
\* identifier.
C15_Witness ==
    /\ app = "batch" /\ pc = "done"
    /\ Len(ids) = 2
    /\ Len(top_level_parents) = 1 /\ Len(standalone) = 1
    /\ top_level_parents # standalone

---------------------------------------------------------------------------
(* The derived-parents summary of the batch classifier *)

SubmittedChildren == Range(children_only) \cup Range(children_and_parents)

ChildrenNaming(p) == {c \in SubmittedChildren : p \in child_to_parents[c]}

\* C13: the unique-parents list holds, once each, exactly the identifiers
\* that are a parent of some submitted child, submitted themselves or not;
\* the count of each is the number of submitted children naming it, which
\* is at most the size of its parent_to_children set.
C13_DerivedParents ==
    (app = "batch" /\ pc = "done") =>
        LET reach == UNION {child_to_parents[c] : c \in SubmittedChildren}
        IN /\ Range(parents_list) = reach
           /\ Len(parents_list) = Cardinality(reach)
           /\ DOMAIN parent_to_childcount = reach
           /\ \A p \in reach :
                 /\ parent_to_childcount[p] = Cardinality(ChildrenNaming(p))
                 /\ p \in DOMAIN parent_to_children
                 /\ parent_to_childcount[p]
                       <= Cardinality(parent_to_children[p])

\* C13 witness: two submitted children name the same parent, which was
\* not submitted.
C13_Witness ==
    /\ app = "batch" /\ pc = "done"
    /\ \E p \in Range(parents_list) :
          /\ p \notin Range(ids)
          /\ parent_to_childcount[p] = 2

\* C14: submitted_children is the subsequence of the input batch of the
\* identifiers with is_child, in input order, and the audit mapping has
\* one row for each of them in that order.
C14_SubmittedInInputOrder ==
    (app = "batch" /\ pc = "done") =>
        LET inOrder == SelectSeq(ids, LAMBDA a : is_child(child_to_parents, a))
        IN /\ submitted_children = inOrder
           /\ Len(mapping_rows) = Len(inOrder)
           /\ \A i \in 1..Len(mapping_rows) :
                 mapping_rows[i].Child = inOrder[i]

---------------------------------------------------------------------------
(* A classification request and the shared background data *)

\* the partition a request returns
Partition ==
    [parents_only |-> parents_only,
     children_and_parents |-> children_and_parents,
     children_only |-> children_only,
     top_level_parents |-> top_level_parents, standalone |-> standalone,
     genizah |-> genizah, not_genizah |-> not_genizah]

\* the partition of batch b over the data as the spreadsheet and the list
\* file give it
FreshPartition(b) ==
    LET g == load_graph(app, columns, table)
        gs == ListIds(app, listText)
        has_p(a) == a \in DOMAIN g.ctp /\ g.ctp[a] # {}
        has_c(a) == a \in DOMAIN g.ptc /\ g.ptc[a] # {}
    IN [parents_only |-> SelectSeq(b, LAMBDA a : has_c(a) /\ ~has_p(a)),
        children_and_parents |-> SelectSeq(b, LAMBDA a : has_c(a) /\ has_p(a)),
        children_only |-> SelectSeq(b, LAMBDA a : ~has_c(a) /\ has_p(a)),
        top_level_parents |->
            IF app = "batch"
            THEN SelectSeq(b, LAMBDA a : has_c(a) /\ ~has_p(a)) ELSE <<>>,
        standalone |->
            IF app = "batch"
            THEN SelectSeq(b, LAMBDA a : ~has_c(a) /\ ~has_p(a)) ELSE <<>>,
        genizah |-> SelectSeq(b, LAMBDA a : a \in gs),
        not_genizah |-> SelectSeq(b, LAMBDA a : a \notin gs)]

\* C12: a classification request leaves child_to_parents, parent_to_children
\* and the Genizah set as they were (same keys, same sets, no key for a
\* queried identifier), and after any number of requests the partition of
\* a batch is the one the loaded data gives.
C12_RequestLeavesDataUnchanged ==
    /\ [][ pc = "ready" =>
              /\ child_to_parents' = child_to_parents
              /\ parent_to_children' = parent_to_children
              /\ geniza_set' = geniza_set ]_vars
    /\ [](pc = "done" => Partition = FreshPartition(ids))

\* C12 witness: a classified batch with an identifier the graph does not
\* know and one it knows.
C12_Witness ==
    /\ pc = "done"
    /\ \E i \in 1..Len(ids) :
          /\ ids[i] \notin DOMAIN child_to_parents
          /\ ids[i] \notin DOMAIN parent_to_children
    /\ \E i \in 1..Len(ids) : ids[i] \in DOMAIN child_to_parents

---------------------------------------------------------------------------
(* SpecLookup: the lookup app over spreadsheet uploads and lookups within  *)
(* one process                                                             *)

DEFAULT_CHILD_PARENT_XLSX == "CHILD PARENT ALMA.xlsx"

TMP_PATH == "uploaded_CHILD_PARENT_ALMA.xlsx"

\* @st.cache_data load_graph(xlsx_path): the stored result for a path
\* string seen before, else the spreadsheet at the path is read and the
\* result stored; an exception stores nothing
cached_load_graph(cache, path, file, cols) ==
    IF path \in DOMAIN cache
    THEN [cache |-> cache, raised |-> FALSE, result |-> cache[path]]
    ELSE IF ~file.present
    THEN [cache |-> cache, raised |-> TRUE,
          result |-> [ctp |-> EmptyMap, ptc |-> EmptyMap]]
    ELSE LET g == load_graph("lookup", cols, file.rows)
         IN [cache |-> (path :> g) @@ cache, raised |-> FALSE, result |-> g]

\* load_alma_list(str(GENIZA_LIST_FILE))
load_alma_list ==
    IF listExists THEN ListIds("lookup", listText) ELSE {}

\* the content of the default spreadsheet, when it exists
DefaultRows == <<<<IdA, IdB>>>>

DefaultFile == [present |-> xlsxExists, rows |-> DefaultRows]

\* One run of the lookup script with the upload widget holding up and the
\* text input holding q.
LookupRun(up, q) ==
    LET path == IF up.present THEN TMP_PATH ELSE DEFAULT_CHILD_PARENT_XLSX
        tmp == IF up.present THEN up ELSE tmp_file
        file == IF up.present THEN tmp ELSE DefaultFile
        ld == cached_load_graph(graph_cache, path, file, columns)
        id == clean_id(q)
    IN /\ uploaded' = up /\ alma_in' = q
       /\ tmp_file' = tmp /\ xlsx_path' = path
       /\ graph_cache' = ld.cache
       /\ child_to_parents' = ld.result.ctp
       /\ parent_to_children' = ld.result.ptc
       /\ IF ld.raised
          THEN /\ pc' = "halted" /\ error' = MissingError
               /\ geniza_set' = {} /\ query_alma' = <<>>
               /\ in_geniza' = FALSE
               /\ lookup_parents' = <<>> /\ lookup_children' = <<>>
          ELSE /\ error' = NoError
               /\ geniza_set' = load_alma_list
               /\ query_alma' = id
               /\ IF id = Absent
                  THEN /\ pc' = "no_query" /\ in_geniza' = FALSE
                       /\ lookup_parents' = <<>> /\ lookup_children' = <<>>
                  ELSE /\ pc' = "answered"
                       /\ in_geniza' = (id \in load_alma_list)
                       /\ lookup_parents' =
                             sorted(dict_get(ld.result.ctp, id))
                       /\ lookup_children' =
                             sorted(dict_get(ld.result.ptc, id))
       /\ UNCHANGED <<app, normVars, ingestVars, envVars, table,
                      parents_set, children_set, role_map, classVars>>

\* the page is opened: the first run, no upload, no query
OpenPage ==
    /\ app = "lookup" /\ pc = "start"
    /\ LookupRun(NoFile, <<>>)

\* the user uploads a spreadsheet in the sidebar
UploadSpreadsheet(rows) ==
    /\ app = "lookup" /\ pc # "start"
    /\ LookupRun([present |-> TRUE, rows |-> rows], alma_in)

\* the user removes the uploaded spreadsheet
RemoveUpload ==
    /\ app = "lookup" /\ pc # "start"
    /\ uploaded.present
    /\ LookupRun(NoFile, alma_in)

\* the user enters an ALMA ID
EnterQuery(q) ==
    /\ app = "lookup" /\ pc # "start"
    /\ q # alma_in
    /\ LookupRun(uploaded, q)

UploadTables ==
    { <<<<IdA, IdC>>>>,
      <<<<IdB, IdA \o Sep3 \o IdC>>>>,
      <<<<IdA, IdB>>, <<IdC, IdB>>>> }

LookupQueries == {<<>>, IdA, <<SP>> \o IdB, IdC}

LookupInit ==
    /\ app = "lookup"
    /\ pc = "start"
    /\ xlsxExists \in BOOLEAN /\ listExists \in BOOLEAN
    /\ columns = <<Name_child, Name_parent>>
    /\ listText = GenizaList
    /\ NormIdle /\ IngestIdle /\ GraphIdle /\ ClassIdle /\ LookupIdle

LookupNext ==
    \/ OpenPage
    \/ \E rows \in UploadTables : UploadSpreadsheet(rows)
    \/ RemoveUpload
    \/ \E q \in LookupQueries : EnterQuery(q)

SpecLookup == LookupInit /\ [][LookupNext]_vars

\* the rows of the currently selected source
SelectedRows == IF uploaded.present THEN uploaded.rows ELSE DefaultRows

\* C16: in the lookup app, after any sequence of uploads and lookups, an
\* answered lookup uses the graph built from the currently selected
\* source: the uploaded spreadsheet when one is uploaded, else the default
\* file.
C16_LookupUsesSelectedSource ==
    (app = "lookup" /\ pc = "answered") =>
        LET g == load_graph("lookup", columns, SelectedRows)
        IN /\ child_to_parents = g.ctp
           /\ parent_to_children = g.ptc
           /\ lookup_parents = sorted(dict_get(g.ctp, query_alma))
           /\ lookup_children = sorted(dict_get(g.ptc, query_alma))

=============================================================================
